---- MODULE Spec2Model ----
(***************************************************************************)
(* Model of GDd.py: a fully-connected multiclass classifier trained by     *)
(* mini-batch gradient descent with an Adam-like update rule.              *)
(*                                                                         *)
(* Numbers.  The program computes in float64.  The model computes in      *)
(* fixed point: an integer x stands for the real x / Scale.  beta1 = 0.9   *)
(* and beta2 = 0.999 are exact at Scale = 1000.  The two epsilons of the   *)
(* program (1e-9 in the loss, 1e-8 in the update) are below that           *)
(* resolution; each is one unit, the smallest strictly positive value, so  *)
(* that "x + epsilon > x" holds in the model as it does in float64 for the *)
(* magnitudes that occur (|x| <= 1 in the loss, x >= 0 in the update).     *)
(* Matrices are sequences of rows; dictionaries are functions whose        *)
(* domain is a set of keys <<name, layer>> ("W1" is <<"W", 1>>).           *)
(***************************************************************************)
EXTENDS Integers, Sequences, FiniteSets, TLC

\* ------------------------------------------------------------------------
\* Bounds of the model
\* ------------------------------------------------------------------------
MaxIter == 2

MaxBatches == 2

MaxSeed == 1

MaxDim == 2

MaxM == 2

MaxT == 3

MaxLayers == 2

\* ------------------------------------------------------------------------
\* Fixed-point arithmetic
\* ------------------------------------------------------------------------
Scale == 1000

\* e = 2.718 in fixed point
EulerFP == 2718

\* ln 2 = 0.693 in fixed point
Ln2FP == 693

\* n / d for d > 0, rounded to the nearest unit (ties away from zero), the
\* sign-symmetric rounding of a floating-point division
RDiv(n, d) == IF n >= 0 THEN (2 * n + d) \div (2 * d)
              ELSE 0 - ((d - 2 * n) \div (2 * d))

FMul(x, y) == RDiv(x * y, Scale)

FDiv(x, y) == RDiv(x * Scale, y)

RECURSIVE SumSeq(_)
SumSeq(s) == IF Len(s) = 0 THEN 0 ELSE Head(s) + SumSeq(Tail(s))

RECURSIVE MaxSeq(_)
MaxSeq(s) == IF Len(s) = 1 THEN s[1]
             ELSE LET r == MaxSeq(Tail(s)) IN IF s[1] > r THEN s[1] ELSE r

\* floor of the square root of a natural number (bisection on lo..hi)
RECURSIVE ISqrtIn(_, _, _)
ISqrtIn(n, lo, hi) ==
    IF lo >= hi THEN lo
    ELSE LET mid == (lo + hi + 1) \div 2
         IN IF mid * mid <= n THEN ISqrtIn(n, mid, hi) ELSE ISqrtIn(n, lo, mid - 1)

ISqrt(n) == ISqrtIn(n, 0, IF n < 46340 THEN n ELSE 46340)

\* np.sqrt on a fixed-point value: sqrt(x/Scale)*Scale = sqrt(x*Scale)
FSqrt(x) == ISqrt(x * Scale)

\* np.power(base, t) for a fixed-point base and a natural exponent
RECURSIVE FPow(_, _)
FPow(base, t) == IF t = 0 THEN Scale ELSE FMul(FPow(base, t - 1), base)

\* Scale * e^(-q) for a natural q, by repeated division by e
RECURSIVE EPow(_)
EPow(q) == IF q = 0 THEN Scale
           ELSE IF q > 8 THEN 0
           ELSE FDiv(EPow(q - 1), EulerFP)

\* np.exp on a fixed-point d <= 0: exact powers of e at the integers,
\* linear in between; underflows to 0 for d <= -8 (float64: d < -745)
FExp(d) ==
    LET n == 0 - d
        q == n \div Scale
        r == n % Scale
        hi == EPow(q)
        lo == EPow(q + 1)
    IN  hi - FMul(hi - lo, r)

RECURSIVE Log2Floor(_)
Log2Floor(n) == IF n < 2 THEN 0 ELSE 1 + Log2Floor(n \div 2)

RECURSIVE Pow2(_)
Pow2(k) == IF k = 0 THEN 1 ELSE 2 * Pow2(k - 1)

\* Scale * ln(n) for an integer n >= 1: exact at powers of two, linear in
\* between (the mantissa/exponent scheme of a floating-point log)
LnNat(n) ==
    LET k == Log2Floor(n)
        p == Pow2(k)
    IN  FMul(k * Scale + RDiv((n - p) * Scale, p), Ln2FP)

\* np.log on a fixed-point x > 0: ln(x/Scale) = ln(x) - ln(Scale)
FLog(x) == LnNat(x) - LnNat(Scale)

\* ------------------------------------------------------------------------
\* Matrices (numpy.ndarray of two dimensions)
\* ------------------------------------------------------------------------
Rows(M) == Len(M)

Cols(M) == Len(M[1])

Shape(M) == <<Rows(M), Cols(M)>>

\* a concrete sequence of the first n values of s
RECURSIVE Conc(_, _)
Conc(s, n) == IF n = 0 THEN <<>> ELSE Append(Conc(s, n - 1), s[n])

\* the r x c matrix with the entries of M, as concrete sequences
Mat(r, c, M) == Conc([i \in 1..r |-> Conc(M[i], c)], r)

Zeros(r, c) == Mat(r, c, [i \in 1..r |-> [j \in 1..c |-> 0]])

\* np.zeros_like
ZerosLike(M) == Zeros(Rows(M), Cols(M))

\* M.T
Transpose(M) ==
    Mat(Cols(M), Rows(M),
        [j \in 1..Cols(M) |-> [i \in 1..Rows(M) |->
            M[i][j]]])

\* np.dot(A, B); defined when Cols(A) = Rows(B)
DotOK(A, B) == Cols(A) = Rows(B)

Dot(A, B) ==
    Mat(Rows(A), Cols(B),
        [i \in 1..Rows(A) |-> [j \in 1..Cols(B) |->
            SumSeq([k \in 1..Cols(A) |-> FMul(A[i][k], B[k][j])])]])

\* numpy broadcasting of two 2-d shapes: per axis equal, or one of them 1
BroadcastOK(A, B) ==
    /\ (Rows(A) = Rows(B) \/ Rows(A) = 1 \/ Rows(B) = 1)
    /\ (Cols(A) = Cols(B) \/ Cols(A) = 1 \/ Cols(B) = 1)

BMax(x, y) == IF x > y THEN x ELSE y

BIdx(n, i) == IF n = 1 THEN 1 ELSE i

\* the entry of A that broadcasting pairs with position (i, j)
BGet(A, i, j) == A[BIdx(Rows(A), i)][BIdx(Cols(A), j)]

\* A + B, A - B and A * B, elementwise with broadcasting
MAdd(A, B) ==
    Mat(BMax(Rows(A), Rows(B)), BMax(Cols(A), Cols(B)),
        [i \in 1..BMax(Rows(A), Rows(B)) |-> [j \in 1..BMax(Cols(A), Cols(B)) |->
            BGet(A, i, j) + BGet(B, i, j)]])

MSub(A, B) ==
    Mat(BMax(Rows(A), Rows(B)), BMax(Cols(A), Cols(B)),
        [i \in 1..BMax(Rows(A), Rows(B)) |-> [j \in 1..BMax(Cols(A), Cols(B)) |->
            BGet(A, i, j) - BGet(B, i, j)]])

MMul(A, B) ==
    Mat(BMax(Rows(A), Rows(B)), BMax(Cols(A), Cols(B)),
        [i \in 1..BMax(Rows(A), Rows(B)) |-> [j \in 1..BMax(Cols(A), Cols(B)) |->
            FMul(BGet(A, i, j), BGet(B, i, j))]])

\* M / n for an integer n (a sample count)
MDivInt(M, n) ==
    Mat(Rows(M), Cols(M),
        [i \in 1..Rows(M) |-> [j \in 1..Cols(M) |->
            RDiv(M[i][j], n)]])

\* np.sum(M)
MSum(M) == SumSeq([i \in 1..Rows(M) |-> SumSeq(M[i])])

\* np.max(M): the maximum over ALL entries
MMax(M) == MaxSeq([i \in 1..Rows(M) |-> MaxSeq(M[i])])

\* np.sum(M, axis=0, keepdims=True): shape (1, cols)
SumAxis0(M) ==
    Mat(1, Cols(M),
        [r \in 1..1 |-> [j \in 1..Cols(M) |->
            SumSeq([i \in 1..Rows(M) |-> M[i][j]])]])

\* np.sum(M, axis=1, keepdims=True): shape (rows, 1)
SumAxis1(M) ==
    Mat(Rows(M), 1,
        [i \in 1..Rows(M) |-> [j \in 1..1 |->
            SumSeq(M[i])]])

IsZero(M) == \A i \in 1..Rows(M) : \A j \in 1..Cols(M) : M[i][j] = 0

\* ------------------------------------------------------------------------
\* Activation functions
\* ------------------------------------------------------------------------
relu(Z) ==
    [A |-> Mat(Rows(Z), Cols(Z),
        [i \in 1..Rows(Z) |-> [j \in 1..Cols(Z) |->
            BMax(0, Z[i][j])]]),
     cache |-> [Z |-> Z]]

relu_der(dA, cache) ==
    Mat(Rows(dA), Cols(dA),
        [i \in 1..Rows(dA) |-> [j \in 1..Cols(dA) |->
            IF cache.Z[i][j] < 0 THEN 0 ELSE dA[i][j]]])

linear(Z) == [A |-> Z, cache |-> [Z |-> Z]]

linear_der(dA, cache) == dA

\* ------------------------------------------------------------------------
\* One-hot encoding and the softmax / cross-entropy head
\* ------------------------------------------------------------------------
\* epsilon of the loss logarithm (1e-9): one unit of the fixed point
LossEps == 1

\* Y.flatten() of a (1, m) label array
Flatten(Y) == IF Len(Y) = 0 THEN <<>> ELSE Y[1]

\* the fancy index Y_one_hot[arange, Y] raises IndexError outside this range
one_hot_OK(Y, num_classes) ==
    \A s \in 1..Len(Flatten(Y)) :
        Flatten(Y)[s] < num_classes /\ Flatten(Y)[s] >= 0 - num_classes

\* shape (len(Y), num_classes); a 1 is Scale in fixed point
one_hot(Y, num_classes) ==
    [s \in 1..Len(Flatten(Y)) |-> [c \in 1..num_classes |->
        IF (Flatten(Y)[s] + num_classes) % num_classes = c - 1 THEN Scale ELSE 0]]

\* softmax over axis 0, shifted by the maximum of the whole matrix
Softmax(Z) ==
    LET mx == MMax(Z)
        E == Mat(Rows(Z), Cols(Z),
                 [i \in 1..Rows(Z) |-> [j \in 1..Cols(Z) |->
                     FExp(Z[i][j] - mx)]])
        S == SumAxis0(E)
    IN  Mat(Rows(Z), Cols(Z),
            [i \in 1..Rows(Z) |-> [j \in 1..Cols(Z) |->
                FDiv(E[i][j], S[1][j])]])

\* every column keeps a positive sum of exponentials (no 0/0)
Softmax_OK(Z) ==
    \A j \in 1..Cols(Z) :
        SumSeq([i \in 1..Rows(Z) |-> FExp(Z[i][j] - MMax(Z))]) > 0

LogEps(A) ==
    Mat(Rows(A), Cols(A),
        [i \in 1..Rows(A) |-> [j \in 1..Cols(A) |->
            FLog(A[i][j] + LossEps)]])

\* the elementwise product Y_sm * np.log(A + 1e-9) needs broadcastable shapes
softmax_cross_entropy_loss_OK(Z, num_classes, Y) ==
    \/ Len(Y) = 0
    \/ /\ one_hot_OK(Y, num_classes)
       /\ BroadcastOK(Transpose(one_hot(Y, num_classes)), Z)

softmax_cross_entropy_loss(Z, num_classes, Y) ==
    LET A == Softmax(Z)
        Y_sm == Transpose(one_hot(Y, num_classes))
    IN  [A |-> A,
         cache |-> [A |-> A],
         loss |-> IF Len(Y) = 0 THEN <<>>
                  ELSE RDiv(0 - MSum(MMul(Y_sm, LogEps(A))), Cols(A))]

softmax_cross_entropy_loss_der_OK(Y, num_classes, cache) ==
    /\ one_hot_OK(Y, num_classes)
    /\ BroadcastOK(cache.A, Transpose(one_hot(Y, num_classes)))

softmax_cross_entropy_loss_der(Y, num_classes, cache) ==
    MSub(cache.A, Transpose(one_hot(Y, num_classes)))

\* ------------------------------------------------------------------------
\* Parameters
\* ------------------------------------------------------------------------
Layers(n) == 1..n

ParamKeys(n) == {<<"W", l>> : l \in Layers(n)} \cup {<<"b", l>> : l \in Layers(n)}

GradKeys(n) == {<<"dW", l>> : l \in Layers(n)} \cup {<<"db", l>> : l \in Layers(n)}

\* len(d) // 2 of a dictionary
HalfLen(d) == Cardinality(DOMAIN d) \div 2

\* one draw of np.random.normal(0, sigma): the generator is seeded, so a
\* draw is a function of the stream and of the position in it
Normal(rng, sigma, l, i, j) ==
    FMul(sigma, (((rng * 7 + l * 13 + i * 5 + j * 3) % 7) - 3) * 400)

initialize_multilayer_weights(net_dims, rng) ==
    LET numLayers == Len(net_dims)
        sigma(l) == FSqrt(RDiv(2 * Scale, net_dims[l]))
    IN  [k \in ParamKeys(numLayers - 1) |->
            IF k[1] = "W"
            THEN Mat(net_dims[k[2] + 1], net_dims[k[2]],
                     [i \in 1..net_dims[k[2] + 1] |-> [j \in 1..net_dims[k[2]] |->
                         Normal(rng, sigma(k[2]), k[2], i, j)]])
            ELSE Mat(net_dims[k[2] + 1], 1,
                     [i \in 1..net_dims[k[2] + 1] |-> [j \in 1..1 |->
                         Normal(rng, sigma(k[2]), k[2], i, j + net_dims[k[2]])]])]

\* ------------------------------------------------------------------------
\* Forward propagation
\* ------------------------------------------------------------------------
linear_forward(A, W, b) == [Z |-> MAdd(Dot(W, A), b), cache |-> [A |-> A]]

layer_forward(A_prev, W, b, activation) ==
    LET lin == linear_forward(A_prev, W, b)
        act == IF activation = "relu" THEN relu(lin.Z) ELSE linear(lin.Z)
    IN  [A |-> act.A,
         cache |-> [lin_cache |-> lin.cache, act_cache |-> act.cache]]

\* the loop "for l in range(1, L)" of multi_layer_forward, from layer l on
RECURSIVE ForwardHidden(_, _, _, _, _)
ForwardHidden(A, parameters, l, L, caches) ==
    IF l >= L THEN [A |-> A, caches |-> caches]
    ELSE LET r == layer_forward(A, parameters[<<"W", l>>], parameters[<<"b", l>>], "relu")
         IN  ForwardHidden(r.A, parameters, l + 1, L, Append(caches, r.cache))

multi_layer_forward(X, parameters) ==
    LET L == HalfLen(parameters)
        h == ForwardHidden(X, parameters, 1, L, <<>>)
        r == layer_forward(h.A, parameters[<<"W", L>>], parameters[<<"b", L>>], "linear")
    IN  [AL |-> r.A, caches |-> Append(h.caches, r.cache)]

\* ------------------------------------------------------------------------
\* Backward propagation
\* ------------------------------------------------------------------------
\* linear_backward with the operands of the weight gradient exchanged
linear_backward_swapped(dZ, cache, W, b) ==
    LET A == cache.A
    IN  [dA_prev |-> Dot(Transpose(W), dZ),
         dW |-> MDivInt(Dot(A, Transpose(dZ)), Cols(A)),
         db |-> MDivInt(SumAxis1(dZ), Cols(A))]

linear_backward_OK(dZ, cache, W, b) ==
    DotOK(Transpose(W), dZ) /\ DotOK(dZ, Transpose(cache.A))

linear_backward(dZ, cache, W, b) ==
    LET A == cache.A
    IN  [dA_prev |-> Dot(Transpose(W), dZ),
         dW |-> MDivInt(Dot(dZ, Transpose(A)), Cols(A)),
         db |-> MDivInt(SumAxis1(dZ), Cols(A))]

\* layer_backward taking the identity derivative whatever the activation
layer_backward_identity(dA, cache, W, b, activation) ==
    linear_backward(linear_der(dA, cache.act_cache), cache.lin_cache, W, b)

\* the mask dZ[Z < 0] of relu_der needs dA and the cached Z of one shape
layer_backward_OK(dA, cache, W, b, activation) ==
    /\ activation = "relu" => Shape(dA) = Shape(cache.act_cache.Z)
    /\ linear_backward_OK(dA, cache.lin_cache, W, b)

layer_backward(dA, cache, W, b, activation) ==
    LET dZ == IF activation = "relu" THEN relu_der(dA, cache.act_cache)
              ELSE linear_der(dA, cache.act_cache)
    IN  linear_backward(dZ, cache.lin_cache, W, b)

\* the loop "for l in reversed(range(1, L + 1))", from layer l down
RECURSIVE BackwardFrom(_, _, _, _, _, _)
BackwardFrom(dA, caches, parameters, l, activation, gradients) ==
    IF l < 1 THEN gradients
    ELSE LET r == layer_backward(dA, caches[l], parameters[<<"W", l>>],
                                 parameters[<<"b", l>>], activation)
         IN  BackwardFrom(r.dA_prev, caches, parameters, l - 1, "relu",
                          (<<"dW", l>> :> r.dW) @@ (<<"db", l>> :> r.db) @@ gradients)

RECURSIVE BackwardFrom_OK(_, _, _, _, _)
BackwardFrom_OK(dA, caches, parameters, l, activation) ==
    IF l < 1 THEN TRUE
    ELSE /\ layer_backward_OK(dA, caches[l], parameters[<<"W", l>>],
                              parameters[<<"b", l>>], activation)
         /\ BackwardFrom_OK(
                layer_backward(dA, caches[l], parameters[<<"W", l>>],
                               parameters[<<"b", l>>], activation).dA_prev,
                caches, parameters, l - 1, "relu")

EmptyDict == [k \in {} |-> 0]

multi_layer_backward_OK(dAL, caches, parameters) ==
    BackwardFrom_OK(dAL, caches, parameters, Len(caches), "linear")

multi_layer_backward(dAL, caches, parameters) ==
    BackwardFrom(dAL, caches, parameters, Len(caches), "linear", EmptyDict)

\* ------------------------------------------------------------------------
\* Moment accumulators and the update rule
\* ------------------------------------------------------------------------
Beta1 == 900

Beta2 == 999

\* epsilon of the update denominator (1e-8): one unit of the fixed point
Epsilon == 1

\* "dW" for "W", "db" for "b"
GradKey(k) == <<IF k[1] = "W" THEN "dW" ELSE "db", k[2]>>

ParamKey(k) == <<IF k[1] = "dW" THEN "W" ELSE "b", k[2]>>

initialize_velocity(parameters) ==
    LET Length == HalfLen(parameters)
        z == [k \in GradKeys(Length) |-> ZerosLike(parameters[ParamKey(k)])]
    IN  [velocity |-> z, svelocity |-> z]

\* Decay with the gradient factor dropped: beta2 * velocity + (1 - beta2)
Decay_nogradient(acc, g, beta2) ==
    Mat(Rows(acc), Cols(acc),
        [i \in 1..Rows(acc) |-> [j \in 1..Cols(acc) |->
            FMul(beta2, acc[i][j]) + (Scale - beta2)]])

\* beta2 * velocity + (1 - beta2) * gradient
Decay(acc, g, beta2) ==
    Mat(Rows(acc), Cols(acc),
        [i \in 1..Rows(acc) |-> [j \in 1..Cols(acc) |->
            FMul(beta2, acc[i][j]) + FMul(Scale - beta2, g[i][j])]])

\* np.power(gradient, 2)
Square(g) ==
    Mat(Rows(g), Cols(g),
        [i \in 1..Rows(g) |-> [j \in 1..Cols(g) |->
            FMul(g[i][j], g[i][j])]])

\* accumulator / (1 - np.power(beta, t))
Correct(acc, beta, t) ==
    Mat(Rows(acc), Cols(acc),
        [i \in 1..Rows(acc) |-> [j \in 1..Cols(acc) |->
            FDiv(acc[i][j], Scale - FPow(beta, t))]])

\* parameter - learning_rate * vel_cor / np.sqrt(svel_cor + epsilon)
Step(p, vel_cor, svel_cor, rate, epsilon) ==
    Mat(Rows(p), Cols(p),
        [i \in 1..Rows(p) |-> [j \in 1..Cols(p) |->
            p[i][j] - FDiv(FMul(rate, vel_cor[i][j]), FSqrt(svel_cor[i][j] + epsilon))]])

\* update_parameters_velocity stepping by the decayed rate alpha
update_parameters_velocity_decayed(parameters, gradients, epoch, velocity, svelocity, t, beta1, beta2, epsilon, learning_rate, decay_rate) ==
    LET alpha == FMul(learning_rate, FDiv(Scale, Scale + decay_rate * epoch))
        L == HalfLen(parameters)
        vel == [k \in GradKeys(L) |-> Decay(velocity[k], gradients[k], beta2)]
        vel_cor == [k \in GradKeys(L) |-> Correct(vel[k], beta1, t)]
        svel == [k \in GradKeys(L) |-> Decay(svelocity[k], Square(gradients[k]), beta2)]
        svel_cor == [k \in GradKeys(L) |-> Correct(svel[k], beta2, t)]
    IN  [parameters |-> [k \in ParamKeys(L) |->
                            Step(parameters[k], vel_cor[GradKey(k)],
                                 svel_cor[GradKey(k)], alpha, epsilon)],
         alpha |-> alpha,
         velocity |-> vel,
         svelocity |-> svel]

update_parameters_velocity(parameters, gradients, epoch, velocity, svelocity, t, beta1, beta2, epsilon, learning_rate, decay_rate) ==
    LET alpha == FMul(learning_rate, FDiv(Scale, Scale + decay_rate * epoch))
        L == HalfLen(parameters)
        vel == [k \in GradKeys(L) |-> Decay(velocity[k], gradients[k], beta2)]
        vel_cor == [k \in GradKeys(L) |-> Correct(vel[k], beta1, t)]
        svel == [k \in GradKeys(L) |-> Decay(svelocity[k], Square(gradients[k]), beta2)]
        svel_cor == [k \in GradKeys(L) |-> Correct(svel[k], beta2, t)]
    IN  [parameters |-> [k \in ParamKeys(L) |->
                            Step(parameters[k], vel_cor[GradKey(k)],
                                 svel_cor[GradKey(k)], learning_rate, epsilon)],
         alpha |-> alpha,
         velocity |-> vel,
         svelocity |-> svel]

\* ------------------------------------------------------------------------
\* The training loop: multi_layer_network
\* ------------------------------------------------------------------------
VARIABLES
    X, Y, validation_data, validation_label, net_dims,    \* arguments
    num_iterations, learning_rate, decay_rate, batch_size,
    rng,                   \* the stream np.random.seed(0) selects
    parameters, alpha, costs, vcosts, t, v, sv,
    X_batch_size, Y_batch_size, batch_length,
    ii, jj,                \* loop counters (ii: epochs completed so far)
    Z, caches, cache_cross, cost, dZ, gradients,
    vcaches, vcost,
    pc,                    \* position in the function
    fwdLog,                \* history: one entry per multi_layer_forward call
    cachesId,              \* history: entry of fwdLog that made "caches"
    updLog,                \* history: the t each update call received
    pre                    \* history: parameters before the last update

vars == <<X, Y, validation_data, validation_label, net_dims,
          num_iterations, learning_rate, decay_rate, batch_size, rng,
          parameters, alpha, costs, vcosts, t, v, sv,
          X_batch_size, Y_batch_size, batch_length, ii, jj,
          Z, caches, cache_cross, cost, dZ, gradients, vcaches, vcost,
          pc, fwdLog, cachesId, updLog, pre>>

args == <<X, Y, validation_data, validation_label, net_dims,
          num_iterations, learning_rate, decay_rate, batch_size, rng,
          X_batch_size, Y_batch_size, batch_length>>

num_classes == 10

\* a value no computation has produced yet
None == <<>>

\* np.split(M, n, axis=1): n pieces of Cols(M) / n columns each
Split_OK(M, n) == n >= 1 /\ Cols(M) % n = 0

Split(M, n) ==
    LET w == Cols(M) \div n
    IN  Conc([b \in 1..n |-> Mat(Rows(M), w,
        [i \in 1..Rows(M) |-> [j \in 1..w |->
            M[i][(b - 1) * w + j]]])], n)

\* the networks the training loop is run on: dL = 10 and dL # 10
TrainDims == {<<2, 10>>, <<2, 3, 10>>, <<2, 3>>, <<2, 2, 1>>, <<2, 11>>}

\* data sets: features are intensities in [0, 1.5], labels lie in [0, dL)
Features(d0, n, sel) ==
    Mat(d0, n,
        [i \in 1..d0 |-> [s \in 1..n |->
            ((s * 3 + i * 5 + sel * 7) % 4) * 500]])

Labels(dL, n, sel) ==
    Mat(1, n,
        [i \in 1..1 |-> [s \in 1..n |->
            (s * 3 + sel) % dL]])

\* decay rates the caller may pass: 0, 0.5, 1.0, ...
Decay_rate(sel) == sel * 500

Decays == {Decay_rate(sel) : sel \in 0..MaxSeed}

\* the state after lines 405-419 (parameters built, accumulators zeroed,
\* training set partitioned, t = 0), for every choice of the arguments
Init ==
    \E dims \in TrainDims, N \in 0..MaxIter, B \in 1..MaxBatches, m \in 1..MaxM,
       sel \in 0..MaxSeed :
        LET d0 == dims[1]
            dL == dims[Len(dims)]
            P == initialize_multilayer_weights(dims, sel)
            V == initialize_velocity(P)
        IN  /\ net_dims = dims
            /\ num_iterations = N
            /\ batch_size = B
            /\ rng = sel
            /\ learning_rate = Scale
            /\ decay_rate = Decay_rate(sel)
            /\ X = Features(d0, B * m, sel)
            /\ Y = Labels(dL, B * m, sel)
            /\ validation_data = Features(d0, 1 + sel, sel + 1)
            /\ validation_label = Labels(dL, 1 + sel, sel + 1)
            /\ parameters = P
            /\ alpha = Scale
            /\ costs = <<>>
            /\ vcosts = <<>>
            /\ t = 0
            /\ v = V.velocity
            /\ sv = V.svelocity
            /\ X_batch_size = Split(Features(d0, B * m, sel), B)
            /\ Y_batch_size = Split(Labels(dL, B * m, sel), B)
            /\ batch_length = B
            /\ ii = 0
            /\ jj = 0
            /\ Z = None /\ caches = None /\ cache_cross = None /\ cost = None
            /\ dZ = None /\ gradients = None /\ vcaches = None /\ vcost = None
            /\ pc = "epoch"
            /\ fwdLog = <<>>
            /\ cachesId = 0
            /\ updLog = <<>>
            /\ pre = None

\* EpochHead restarting the step counter with every epoch
EpochHead_reset ==
    /\ pc = "epoch"
    /\ IF ii < num_iterations
       THEN jj' = 0 /\ pc' = "batch" /\ t' = 0
       ELSE jj' = jj /\ pc' = "done" /\ t' = t
    /\ UNCHANGED <<args, parameters, alpha, costs, vcosts, v, sv, ii,
                   Z, caches, cache_cross, cost, dZ, gradients, vcaches, vcost,
                   fwdLog, cachesId, updLog, pre>>

\* line 430: for ii in range(num_iterations)
EpochHead ==
    /\ pc = "epoch"
    /\ IF ii < num_iterations
       THEN jj' = 0 /\ pc' = "batch"
       ELSE jj' = jj /\ pc' = "done"
    /\ UNCHANGED <<args, parameters, alpha, costs, vcosts, t, v, sv, ii,
                   Z, caches, cache_cross, cost, dZ, gradients, vcaches, vcost,
                   fwdLog, cachesId, updLog, pre>>

\* line 431: for jj in range(batch_length)
BatchHead ==
    /\ pc = "batch"
    /\ pc' = IF jj < batch_length THEN "forward" ELSE "append_cost"
    /\ UNCHANGED <<args, parameters, alpha, costs, vcosts, t, v, sv, ii, jj,
                   Z, caches, cache_cross, cost, dZ, gradients, vcaches, vcost,
                   fwdLog, cachesId, updLog, pre>>

\* line 436: Z, caches = multi_layer_forward(X_batch_size[jj], parameters)
Forward ==
    /\ pc = "forward"
    /\ LET r == multi_layer_forward(X_batch_size[jj + 1], parameters)
       IN  Z' = r.AL /\ caches' = r.caches
    /\ fwdLog' = Append(fwdLog, [kind |-> "train", ii |-> ii, jj |-> jj, used |-> <<>>])
    /\ cachesId' = Len(fwdLog) + 1
    /\ pc' = "loss"
    /\ UNCHANGED <<args, parameters, alpha, costs, vcosts, t, v, sv, ii, jj,
                   cache_cross, cost, dZ, gradients, vcaches, vcost, updLog, pre>>

\* line 437: A, cache_cross, cost = softmax_cross_entropy_loss(Z, num_classes, Y_batch_size[jj])
Loss ==
    /\ pc = "loss"
    /\ IF softmax_cross_entropy_loss_OK(Z, num_classes, Y_batch_size[jj + 1])
       THEN LET r == softmax_cross_entropy_loss(Z, num_classes, Y_batch_size[jj + 1])
            IN  cache_cross' = r.cache /\ cost' = r.loss /\ pc' = "loss_der"
       ELSE UNCHANGED <<cache_cross, cost>> /\ pc' = "error"
    /\ UNCHANGED <<args, parameters, alpha, costs, vcosts, t, v, sv, ii, jj,
                   Z, caches, dZ, gradients, vcaches, vcost,
                   fwdLog, cachesId, updLog, pre>>

\* line 440: dZ = softmax_cross_entropy_loss_der(Y_batch_size[jj], num_classes, cache_cross)
LossDer ==
    /\ pc = "loss_der"
    /\ IF softmax_cross_entropy_loss_der_OK(Y_batch_size[jj + 1], num_classes, cache_cross)
       THEN /\ dZ' = softmax_cross_entropy_loss_der(Y_batch_size[jj + 1], num_classes, cache_cross)
            /\ pc' = "backward"
       ELSE dZ' = dZ /\ pc' = "error"
    /\ UNCHANGED <<args, parameters, alpha, costs, vcosts, t, v, sv, ii, jj,
                   Z, caches, cache_cross, cost, gradients, vcaches, vcost,
                   fwdLog, cachesId, updLog, pre>>

\* line 445: gradients = multi_layer_backward(dZ, caches, parameters)
Backward ==
    /\ pc = "backward"
    /\ IF multi_layer_backward_OK(dZ, caches, parameters)
       THEN /\ gradients' = multi_layer_backward(dZ, caches, parameters)
            /\ fwdLog' = [fwdLog EXCEPT ![cachesId].used = Append(@, <<ii, jj>>)]
            /\ pc' = "update"
       ELSE UNCHANGED <<gradients, fwdLog>> /\ pc' = "error"
    /\ UNCHANGED <<args, parameters, alpha, costs, vcosts, t, v, sv, ii, jj,
                   Z, caches, cache_cross, cost, dZ, vcaches, vcost,
                   cachesId, updLog, pre>>

\* lines 448-449: t = t + 1; parameters, alpha, velocity, svelocity =
\* update_parameters_velocity(parameters, gradients, ii, v, sv, t, beta1,
\* beta2, epsilon, learning_rate, decay_rate); v and sv are updated in place
Update ==
    /\ pc = "update"
    /\ t' = t + 1
    /\ LET r == update_parameters_velocity(parameters, gradients, ii, v, sv, t + 1,
                                           Beta1, Beta2, Epsilon, learning_rate, decay_rate)
       IN  /\ parameters' = r.parameters
           /\ alpha' = r.alpha
           /\ v' = r.velocity
           /\ sv' = r.svelocity
    /\ updLog' = Append(updLog, t + 1)
    /\ pre' = parameters
    /\ jj' = jj + 1
    /\ pc' = "batch"
    /\ UNCHANGED <<args, costs, vcosts, ii, Z, caches, cache_cross, cost, dZ,
                   gradients, vcaches, vcost, fwdLog, cachesId>>

\* the loss of batch b (1-based) under the parameters P
BatchLoss(b, P) ==
    softmax_cross_entropy_loss(multi_layer_forward(X_batch_size[b], P).AL,
                               num_classes, Y_batch_size[b]).loss

\* AppendCost under the commented-out guard of line 461, every second epoch
AppendCost_guarded ==
    /\ pc = "append_cost"
    /\ costs' = IF ii % 2 = 0 THEN Append(costs, cost) ELSE costs
    /\ pc' = "validate"
    /\ UNCHANGED <<args, parameters, alpha, vcosts, t, v, sv, ii, jj,
                   Z, caches, cache_cross, cost, dZ, gradients, vcaches, vcost,
                   fwdLog, cachesId, updLog, pre>>

\* AppendCost recording the loss recomputed with the updated parameters
AppendCost_recomputed ==
    /\ pc = "append_cost"
    /\ costs' = Append(costs, BatchLoss(batch_length, parameters))
    /\ pc' = "validate"
    /\ UNCHANGED <<args, parameters, alpha, vcosts, t, v, sv, ii, jj,
                   Z, caches, cache_cross, cost, dZ, gradients, vcaches, vcost,
                   fwdLog, cachesId, updLog, pre>>

\* line 462: costs.append(cost)
AppendCost ==
    /\ pc = "append_cost"
    /\ costs' = Append(costs, cost)
    /\ pc' = "validate"
    /\ UNCHANGED <<args, parameters, alpha, vcosts, t, v, sv, ii, jj,
                   Z, caches, cache_cross, cost, dZ, gradients, vcaches, vcost,
                   fwdLog, cachesId, updLog, pre>>

\* Validate also taking a training step with the last gradients
Validate_training ==
    /\ pc = "validate"
    /\ LET f == multi_layer_forward(validation_data, parameters)
       IN  /\ vcaches' = f.caches
           /\ vcost' = softmax_cross_entropy_loss(f.AL, num_classes, validation_label).loss
    /\ parameters' = update_parameters_velocity(parameters, gradients, ii, v, sv, t,
                         Beta1, Beta2, Epsilon, learning_rate, decay_rate).parameters
    /\ pc' = "append_vcost"
    /\ fwdLog' = Append(fwdLog, [kind |-> "val", ii |-> ii, jj |-> jj, used |-> <<>>])
    /\ UNCHANGED <<args, alpha, costs, vcosts, t, v, sv, ii, jj,
                   Z, caches, cache_cross, cost, dZ, gradients,
                   cachesId, updLog, pre>>

\* Validate also running a backward pass over the validation caches
Validate_backward ==
    /\ pc = "validate"
    /\ LET f == multi_layer_forward(validation_data, parameters)
           s == softmax_cross_entropy_loss(f.AL, num_classes, validation_label)
       IN  /\ vcaches' = f.caches
           /\ vcost' = s.loss
           /\ gradients' = multi_layer_backward(
                  softmax_cross_entropy_loss_der(validation_label, num_classes, s.cache),
                  f.caches, parameters)
    /\ pc' = "append_vcost"
    /\ fwdLog' = Append(fwdLog, [kind |-> "val", ii |-> ii, jj |-> jj,
                                 used |-> << <<ii, jj>> >>])
    /\ UNCHANGED <<args, parameters, alpha, costs, vcosts, t, v, sv, ii, jj,
                   Z, caches, cache_cross, cost, dZ,
                   cachesId, updLog, pre>>

\* lines 464-465: VZ, vcaches = multi_layer_forward(B0, parameters);
\* B, vcache_cross, vcost = softmax_cross_entropy_loss(VZ, num_classes, validation_label)
Validate ==
    /\ pc = "validate"
    /\ LET f == multi_layer_forward(validation_data, parameters)
       IN  /\ vcaches' = f.caches
           /\ IF softmax_cross_entropy_loss_OK(f.AL, num_classes, validation_label)
              THEN /\ vcost' = softmax_cross_entropy_loss(f.AL, num_classes, validation_label).loss
                   /\ pc' = "append_vcost"
              ELSE vcost' = vcost /\ pc' = "error"
    /\ fwdLog' = Append(fwdLog, [kind |-> "val", ii |-> ii, jj |-> jj, used |-> <<>>])
    /\ UNCHANGED <<args, parameters, alpha, costs, vcosts, t, v, sv, ii, jj,
                   Z, caches, cache_cross, cost, dZ, gradients,
                   cachesId, updLog, pre>>

\* line 467: vcosts.append(vcost); the epoch is complete
AppendVCost ==
    /\ pc = "append_vcost"
    /\ vcosts' = Append(vcosts, vcost)
    /\ ii' = ii + 1
    /\ pc' = "epoch"
    /\ UNCHANGED <<args, parameters, alpha, costs, t, v, sv, jj,
                   Z, caches, cache_cross, cost, dZ, gradients, vcaches, vcost,
                   fwdLog, cachesId, updLog, pre>>

Next ==
    \/ EpochHead
    \/ BatchHead
    \/ Forward
    \/ Loss
    \/ LossDer
    \/ Backward
    \/ Update
    \/ AppendCost
    \/ Validate
    \/ AppendVCost

Spec == Init /\ [][Next]_vars

\* ------------------------------------------------------------------------
\* One forward and one backward pass, for any dimension list
\* ------------------------------------------------------------------------
\* every variable the pass does not use
IdleLoop ==
    /\ Y = None /\ validation_data = None /\ validation_label = None
    /\ num_iterations = 0 /\ batch_size = 1 /\ batch_length = 1
    /\ costs = <<>> /\ vcosts = <<>> /\ ii = 0 /\ jj = 0
    /\ vcaches = None /\ vcost = None
    /\ fwdLog = <<>> /\ cachesId = 0

\* all dimension lists [d0, ..., dL] with 1 <= L <= MaxLayers, d <= MaxDim
AllDims == UNION {[1..(n + 1) -> 1..MaxDim] : n \in 1..MaxLayers}

\* a final-layer gradient of shape (dL, m)
GradOut(dL, m, sel) ==
    Mat(dL, m,
        [i \in 1..dL |-> [s \in 1..m |->
            (((i * 3 + s * 5 + sel) % 5) - 2) * 400]])

InitPass ==
    \E dims \in AllDims, m \in 1..MaxM, sel \in 0..MaxSeed :
        LET P == initialize_multilayer_weights(dims, sel)
            V == initialize_velocity(P)
        IN  /\ IdleLoop
            /\ net_dims = dims
            /\ rng = sel
            /\ learning_rate = Scale /\ decay_rate = 0 /\ alpha = Scale
            /\ X = Features(dims[1], m, sel)
            /\ X_batch_size = <<Features(dims[1], m, sel)>>
            /\ Y_batch_size = None
            /\ parameters = P
            /\ t = 0 /\ v = V.velocity /\ sv = V.svelocity
            /\ Z = None /\ caches = None /\ cache_cross = None /\ cost = None
            /\ dZ = GradOut(dims[Len(dims)], m, sel)
            /\ gradients = None
            /\ updLog = <<>> /\ pre = None
            /\ pc = "pass_forward"

\* Z, caches = multi_layer_forward(X, parameters)
ForwardPass ==
    /\ pc = "pass_forward"
    /\ LET r == multi_layer_forward(X_batch_size[1], parameters)
       IN  Z' = r.AL /\ caches' = r.caches
    /\ pc' = "pass_backward"
    /\ UNCHANGED <<args, parameters, alpha, costs, vcosts, t, v, sv, ii, jj,
                   cache_cross, cost, dZ, gradients, vcaches, vcost,
                   fwdLog, cachesId, updLog, pre>>

\* gradients = multi_layer_backward(dZ, caches, parameters)
BackwardPass ==
    /\ pc = "pass_backward"
    /\ IF multi_layer_backward_OK(dZ, caches, parameters)
       THEN gradients' = multi_layer_backward(dZ, caches, parameters) /\ pc' = "pass_done"
       ELSE gradients' = gradients /\ pc' = "error"
    /\ UNCHANGED <<args, parameters, alpha, costs, vcosts, t, v, sv, ii, jj,
                   Z, caches, cache_cross, cost, dZ, vcaches, vcost,
                   fwdLog, cachesId, updLog, pre>>

NextPass == ForwardPass \/ BackwardPass

SpecPass == InitPass /\ [][NextPass]_vars

\* ------------------------------------------------------------------------
\* Update steps on arbitrary gradients
\* ------------------------------------------------------------------------
\* gradients of the parameters' shapes; selection 0 is all-zero
GradSel(P, sel) ==
    [k \in GradKeys(HalfLen(P)) |->
        Mat(Rows(P[ParamKey(k)]), Cols(P[ParamKey(k)]),
        [i \in 1..Rows(P[ParamKey(k)]) |-> [j \in 1..Cols(P[ParamKey(k)]) |->
            sel * ((((i * 3 + j * 5 + k[2] + sel) % 5) - 2) * 1500)]])]

AllZero(d) == \A k \in DOMAIN d : IsZero(d[k])

UpdateDims == {<<1, 1>>, <<2, 1>>, <<1, 2, 1>>, <<2, 2, 2>>}

InitUpdate ==
    \E dims \in UpdateDims, sel \in 0..MaxSeed, t0 \in 0..(MaxT - 1) :
        LET P == initialize_multilayer_weights(dims, sel)
            V == initialize_velocity(P)
        IN  /\ IdleLoop
            /\ net_dims = dims
            /\ rng = sel
            /\ learning_rate = Scale /\ decay_rate = Decay_rate(sel) /\ alpha = Scale
            /\ X = None /\ X_batch_size = None /\ Y_batch_size = None
            /\ parameters = P
            /\ t = t0 /\ v = V.velocity /\ sv = V.svelocity
            /\ Z = None /\ caches = None /\ cache_cross = None /\ cost = None
            /\ dZ = None
            /\ gradients = None
            /\ updLog = <<>> /\ pre = None
            /\ pc = "upd_gradients"

\* the caller supplies gradients
SupplyGradients ==
    /\ pc = "upd_gradients"
    /\ t < MaxT
    /\ \E sel \in 0..2 : gradients' = GradSel(parameters, sel)
    /\ pc' = "upd_step"
    /\ UNCHANGED <<args, parameters, alpha, costs, vcosts, t, v, sv, ii, jj,
                   Z, caches, cache_cross, cost, dZ, vcaches, vcost,
                   fwdLog, cachesId, updLog, pre>>

\* t = t + 1; update_parameters_velocity(parameters, gradients, epoch, v, sv, t, ...)
UpdateStep ==
    /\ pc = "upd_step"
    /\ t' = t + 1
    /\ LET r == update_parameters_velocity(parameters, gradients, ii, v, sv, t + 1,
                                           Beta1, Beta2, Epsilon, learning_rate, decay_rate)
       IN  /\ parameters' = r.parameters
           /\ alpha' = r.alpha
           /\ v' = r.velocity
           /\ sv' = r.svelocity
    /\ updLog' = Append(updLog, t + 1)
    /\ pre' = parameters
    /\ pc' = "upd_gradients"
    /\ UNCHANGED <<args, costs, vcosts, ii, jj, Z, caches, cache_cross, cost, dZ,
                   gradients, vcaches, vcost, fwdLog, cachesId>>

NextUpdate == SupplyGradients \/ UpdateStep

SpecUpdate == InitUpdate /\ [][NextUpdate]_vars

\* ------------------------------------------------------------------------
\* The loss of arbitrary pre-softmax outputs
\* ------------------------------------------------------------------------
Logits == {-9000, 0, 9000}

InitLoss ==
    \E k \in 2..MaxDim, m \in 1..MaxM :
        \E z \in [1..k -> [1..m -> Logits]], y \in [1..m -> 0..(k - 1)] :
            /\ Softmax_OK(z)
            /\ IdleLoop
            /\ net_dims = <<k>>
            /\ rng = 0
            /\ learning_rate = Scale /\ decay_rate = 0 /\ alpha = Scale
            /\ X = None /\ X_batch_size = None
            /\ Y_batch_size = <<Mat(1, m, [i \in 1..1 |-> [s \in 1..m |-> y[s]]])>>
            /\ parameters = None
            /\ t = 0 /\ v = None /\ sv = None
            /\ Z = Mat(k, m, z)
            /\ caches = None /\ cache_cross = None /\ cost = None
            /\ dZ = None
            /\ gradients = None
            /\ updLog = <<>> /\ pre = None
            /\ pc = "loss_call"

\* A, cache, loss = softmax_cross_entropy_loss(Z, num_classes, Y)
LossCall ==
    /\ pc = "loss_call"
    /\ LET r == softmax_cross_entropy_loss(Z, net_dims[1], Y_batch_size[1])
       IN  cache_cross' = r.cache /\ cost' = r.loss
    /\ pc' = "loss_der_call"
    /\ UNCHANGED <<args, parameters, alpha, costs, vcosts, t, v, sv, ii, jj,
                   Z, caches, dZ, gradients, vcaches, vcost,
                   fwdLog, cachesId, updLog, pre>>

\* dZ = softmax_cross_entropy_loss_der(Y, num_classes, cache)
LossDerCall ==
    /\ pc = "loss_der_call"
    /\ dZ' = softmax_cross_entropy_loss_der(Y_batch_size[1], net_dims[1], cache_cross)
    /\ pc' = "loss_done"
    /\ UNCHANGED <<args, parameters, alpha, costs, vcosts, t, v, sv, ii, jj,
                   Z, caches, cache_cross, cost, gradients, vcaches, vcost,
                   fwdLog, cachesId, updLog, pre>>

NextLoss == LossCall \/ LossDerCall

SpecLoss == InitLoss /\ [][NextLoss]_vars

\* ------------------------------------------------------------------------
\* Properties
\* ------------------------------------------------------------------------
InLoopBody == pc \in {"batch", "forward", "loss", "loss_der", "backward", "update"}

InEpochTail == pc \in {"append_cost", "validate", "append_vcost"}

\* s2 is s1, or s1 with one entry appended
AppendedTo(s1, s2) ==
    \/ s2 = s1
    \/ Len(s2) = Len(s1) + 1 /\ SubSeq(s2, 1, Len(s1)) = s1

\* C1: the training-cost and validation-cost sequences are append-only, gain
\* exactly one entry per completed epoch (after e completed epochs both have
\* length e), and at return both have length num_iterations.
C1_CostSequences ==
    /\ [](pc \in {"epoch", "done"} \cup {"batch", "forward", "loss", "loss_der",
                                         "backward", "update", "append_cost"}
            => Len(costs) = ii /\ Len(vcosts) = ii)
    /\ [](pc = "done" => Len(costs) = num_iterations /\ Len(vcosts) = num_iterations)
    /\ [][/\ AppendedTo(costs, costs')
          /\ AppendedTo(vcosts, vcosts')
          /\ (ii' # ii => ii' = ii + 1 /\ Len(costs') = ii' /\ Len(vcosts') = ii')]_vars

C1_Witness ==
    pc = "done" /\ num_iterations = 2 /\ Len(costs) = 2 /\ Len(vcosts) = 2

\* C2: for any dimension list, the one-hot label matrix built for the loss
\* and the gradient of a training batch has shape (dL, batch_m), the shape of
\* the pre-softmax output, and no shape failure occurs.
C2_OneHotMatchesOutput ==
    /\ pc # "error"
    /\ pc \in {"loss", "loss_der"} =>
          /\ Shape(Transpose(one_hot(Y_batch_size[jj + 1], num_classes)))
                = <<net_dims[Len(net_dims)], Cols(X_batch_size[jj + 1])>>
          /\ Shape(Transpose(one_hot(Y_batch_size[jj + 1], num_classes))) = Shape(Z)

\* C3: the validation pass leaves parameters, velocity, squared velocity and
\* t unchanged; they change only in the update step, which runs exactly once
\* per mini-batch.
C3_ValidationIsPureRead ==
    /\ [](InLoopBody => Len(updLog) = ii * batch_length + jj)
    /\ [](InEpochTail => Len(updLog) = (ii + 1) * batch_length)
    /\ [][/\ pc = "validate" => UNCHANGED <<parameters, v, sv, t>>
          /\ pc # "update" => UNCHANGED <<parameters, v, sv, t, updLog>>
          /\ pc = "update" => t' = t + 1 /\ Len(updLog') = Len(updLog) + 1]_vars

C3_Witness ==
    /\ pc = "append_vcost"
    /\ Len(updLog) >= 1
    /\ parameters # pre
    /\ ~AllZero(v)

\* C4: the training cost appended for an epoch is the loss of the forward
\* pass of the epoch's last mini-batch, taken with the parameters as they
\* were before that batch's update.
C4_CostIsLastBatchLoss ==
    pc = "validate" => costs[Len(costs)] = BatchLoss(batch_length, pre)

C4_Witness ==
    /\ pc = "validate"
    /\ batch_length >= 2
    /\ costs[Len(costs)] # BatchLoss(batch_length, parameters)
    /\ costs[Len(costs)] # BatchLoss(1, pre)

\* C5: the parameters and accumulators an update step produces do not depend
\* on the epoch number or on decay_rate; the step is taken with
\* learning_rate, never with the alpha an earlier update returned.
C5_UpdateIgnoresDecay ==
    [][pc = "update" =>
        \A e2 \in 0..MaxIter, d2 \in Decays :
            LET r2 == update_parameters_velocity(parameters, gradients, e2, v, sv, t + 1,
                                                 Beta1, Beta2, Epsilon, learning_rate, d2)
            IN  /\ parameters' = r2.parameters
                /\ v' = r2.velocity
                /\ sv' = r2.svelocity]_vars

C5_Witness ==
    /\ pc = "batch"
    /\ Len(updLog) >= 1
    /\ ii >= 1
    /\ alpha # learning_rate
    /\ parameters # pre

\* C6: multi_layer_backward over the caches of the matching forward pass
\* returns exactly the keys dW_l, db_l for l in 1..L, with
\* shape(dW_l) = (d_l, d_{l-1}) = shape(W_l) and shape(db_l) = (d_l, 1) = shape(b_l).
C6_GradientShapes ==
    /\ pc # "error"
    /\ pc = "pass_done" =>
          /\ DOMAIN gradients = GradKeys(Len(net_dims) - 1)
          /\ \A l \in 1..(Len(net_dims) - 1) :
                /\ Shape(gradients[<<"dW", l>>]) = <<net_dims[l + 1], net_dims[l]>>
                /\ Shape(gradients[<<"dW", l>>]) = Shape(parameters[<<"W", l>>])
                /\ Shape(gradients[<<"db", l>>]) = <<net_dims[l + 1], 1>>
                /\ Shape(gradients[<<"db", l>>]) = Shape(parameters[<<"b", l>>])

C6_Witness ==
    /\ pc = "pass_done"
    /\ Len(net_dims) = 3
    /\ net_dims[1] # net_dims[2]
    /\ net_dims[2] # net_dims[3]
    /\ Cols(dZ) = MaxM

\* C7: the loss returned by softmax_cross_entropy_loss is >= 0 for valid
\* labels and any probability matrix the softmax produces.
C7_LossNonNegative ==
    pc \in {"loss_der_call", "loss_done"} => cost >= 0

\* C8: one update step (t >= 1) with all-zero gradients on freshly zeroed
\* accumulators leaves every weight and bias unchanged and both
\* accumulators all-zero.
C8_ZeroGradientFixpoint ==
    (pc = "upd_gradients" /\ Len(updLog) = 1 /\ AllZero(gradients)) =>
        /\ updLog[1] >= 1
        /\ parameters = pre
        /\ AllZero(v)
        /\ AllZero(sv)

C8_Witness ==
    /\ pc = "upd_gradients"
    /\ Len(updLog) = 1
    /\ AllZero(gradients)
    /\ updLog[1] >= 2
    /\ ~AllZero(parameters)

\* C9 (as stated): every cache list a forward pass produces, validation
\* passes included, has been consumed by exactly one backward pass.
C9_EveryCacheConsumed ==
    pc = "done" => \A k \in 1..Len(fwdLog) : Len(fwdLog[k].used) = 1

\* the cache list of entry k is still waiting for its backward pass
Pending(k) == k = cachesId /\ pc \in {"loss", "loss_der", "backward", "error"}

\* C9 (amended): the cache list of a training batch is consumed by its own
\* mini-batch's backward pass only, exactly once when that pass has run; the
\* cache list of a validation pass is consumed by no backward pass.
C9_TrainCachesConsumedOnce ==
    \A k \in 1..Len(fwdLog) :
        IF fwdLog[k].kind = "train"
        THEN fwdLog[k].used = IF Pending(k) THEN <<>>
                              ELSE << <<fwdLog[k].ii, fwdLog[k].jj>> >>
        ELSE fwdLog[k].used = <<>>

C9_Witness ==
    /\ pc = "done"
    /\ \E k \in 1..Len(fwdLog) : fwdLog[k].kind = "val" /\ fwdLog[k].used = <<>>
    /\ \E k \in 1..Len(fwdLog) : fwdLog[k].kind = "train" /\ Len(fwdLog[k].used) = 1
    /\ Len(fwdLog) >= 4

\* C10: t starts at 0, is incremented once per mini-batch right before the
\* update and never reset: the k-th update receives t = k (so t >= 1), and
\* after e completed epochs over B batches t = e * B.
C10_GlobalStep ==
    /\ t = Len(updLog)
    /\ \A k \in 1..Len(updLog) : updLog[k] = k /\ updLog[k] >= 1
    /\ pc \in {"epoch", "done"} => t = ii * batch_length
    /\ (InLoopBody \/ pc = "error") => t = ii * batch_length + jj
    /\ InEpochTail => t = (ii + 1) * batch_length

C10_Witness ==
    pc = "epoch" /\ ii = 2 /\ batch_length = 2 /\ t = 4 /\ updLog = <<1, 2, 3, 4>>

\* the activation the forward pass applied to layer l, read off its results:
\* the input cached for layer l + 1 is the activation of layer l's cached Z,
\* and the returned AL is the activation of layer L's cached Z
ForwardApplied(l) ==
    LET out == IF l < Len(caches) THEN caches[l + 1].lin_cache.A ELSE Z
        zl == caches[l].act_cache.Z
    IN  {a \in {"relu", "linear"} :
            out = IF a = "relu" THEN relu(zl).A ELSE linear(zl).A}

\* the gradient reaching layer l (LayerDA) and the gradient behind its
\* activation (LayerDZ), written layer by layer: layer L receives dAL and
\* takes the identity derivative, a layer l < L receives W_{l+1}.T dZ_{l+1}
\* and takes the ReLU derivative at its own cached Z
RECURSIVE LayerDA(_)
RECURSIVE LayerDZ(_)
LayerDA(l) ==
    IF l = Len(caches) THEN dZ
    ELSE Dot(Transpose(parameters[<<"W", l + 1>>]), LayerDZ(l + 1))

LayerDZ(l) ==
    IF l = Len(caches) THEN linear_der(LayerDA(l), caches[l].act_cache)
    ELSE relu_der(LayerDA(l), caches[l].act_cache)

\* C11: for every depth L >= 1 the backward walk runs from layer L down to
\* layer 1 (layer l receives what layer l + 1 passed back), pairs layer l
\* with the cache the forward pass stored for layer l (position l of the
\* list, index l - 1 in the program) and with W_l / b_l, and applies the
\* derivative of the activation the forward pass applied to layer l:
\* identity for layer L, ReLU for the layers 1..L-1.
C11_BackwardMirrorsForward ==
    pc = "pass_done" =>
        LET L == Len(caches)
            m == Cols(dZ)
        IN  /\ L = HalfLen(parameters) /\ L >= 1
            /\ DOMAIN gradients = GradKeys(L)
            /\ caches[1].lin_cache.A = X_batch_size[1]
            /\ \A l \in 1..L :
                  /\ caches[l].act_cache.Z =
                        linear_forward(caches[l].lin_cache.A,
                                       parameters[<<"W", l>>],
                                       parameters[<<"b", l>>]).Z
                  /\ (IF l = L THEN "linear" ELSE "relu") \in ForwardApplied(l)
                  /\ gradients[<<"dW", l>>] =
                        MDivInt(Dot(LayerDZ(l), Transpose(caches[l].lin_cache.A)), m)
                  /\ gradients[<<"db", l>>] = MDivInt(SumAxis1(LayerDZ(l)), m)

\* a two-layer pass in which the two activations are told apart in both
\* directions: the hidden layer has a negative pre-activation that masks a
\* non-zero incoming gradient, and the output layer has a negative
\* pre-activation whose gradient passes unmasked
C11_Witness ==
    /\ pc = "pass_done"
    /\ Len(caches) = 2
    /\ ForwardApplied(1) = {"relu"}
    /\ ForwardApplied(2) = {"linear"}
    /\ \E i \in 1..net_dims[2], j \in 1..Cols(dZ) :
          /\ caches[1].act_cache.Z[i][j] < 0
          /\ LayerDA(1)[i][j] # 0
          /\ LayerDZ(1)[i][j] = 0
    /\ \E i \in 1..net_dims[3], j \in 1..Cols(dZ) :
          /\ caches[2].act_cache.Z[i][j] < 0
          /\ LayerDZ(2)[i][j] # 0
    /\ ~IsZero(gradients[<<"dW", 1>>])

\* the single-layer case: no ReLU in either direction
C11_WitnessSingle ==
    /\ pc = "pass_done"
    /\ Len(caches) = 1
    /\ ForwardApplied(1) = {"linear"}
    /\ \E i \in 1..net_dims[2], j \in 1..Cols(dZ) :
          caches[1].act_cache.Z[i][j] < 0 /\ LayerDZ(1)[i][j] # 0

====
